---- MODULE Spec2Model ----
(***************************************************************************)
(* The matching core of the solver: the version comparator, the pairwise   *)
(* predicate doOffersMatch and the matching pass getMatchingDeals, run by  *)
(* one or two callers against a shared solver store.                       *)
(***************************************************************************)
EXTENDS Integers, Sequences, FiniteSets, TLC

(***************************************************************************)
(* Strings.  A Go string is modelled as the sequence of its bytes, so that *)
(* splitting, prefix trimming, integer parsing and byte-wise comparison    *)
(* are computed the way the standard library computes them.                *)
(***************************************************************************)
Code ==
    "+" :> 43 @@ "-" :> 45 @@ "." :> 46 @@
    "0" :> 48 @@ "1" :> 49 @@ "2" :> 50 @@ "3" :> 51 @@ "9" :> 57 @@
    ":" :> 58 @@ "a" :> 97 @@ "b" :> 98 @@ "m" :> 109 @@ "n" :> 110 @@
    "v" :> 118

\* the byte string spelled by a tuple of one-character strings
S(chars) == [i \in 1..Len(chars) |-> Code[chars[i]]]

RECURSIVE SplitFrom(_, _, _)
\* strings.Split(s, sep) for a one-byte separator: cur is the part being read
SplitFrom(s, sep, cur) ==
    IF s = <<>> THEN <<cur>>
    ELSE IF Head(s) = sep THEN <<cur>> \o SplitFrom(Tail(s), sep, <<>>)
    ELSE SplitFrom(Tail(s), sep, Append(cur, Head(s)))

Split(s, sep) == SplitFrom(s, sep, <<>>)

\* strings.TrimPrefix(s, "v")
TrimPrefixV(s) == IF s # <<>> /\ Head(s) = Code["v"] THEN Tail(s) ELSE s

IsDigit(c) == c >= Code["0"] /\ c <= Code["9"]

\* the digits of s once an optional sign is removed (strconv.Atoi)
AtoiBody(s) ==
    IF s # <<>> /\ Head(s) \in {Code["+"], Code["-"]} THEN Tail(s) ELSE s

\* an Atoi that parses nothing
AtoiNever(s) == FALSE

\* err == nil of strconv.Atoi(s)
AtoiOk(s) == AtoiBody(s) # <<>> /\ \A i \in 1..Len(AtoiBody(s)) : IsDigit(AtoiBody(s)[i])

RECURSIVE DigitsValue(_)
DigitsValue(d) ==
    IF d = <<>> THEN 0
    ELSE 10 * DigitsValue(SubSeq(d, 1, Len(d) - 1)) + (d[Len(d)] - Code["0"])

\* the int of strconv.Atoi(s), for a string it parses
AtoiValue(s) ==
    IF s # <<>> /\ Head(s) = Code["-"] THEN 0 - DigitsValue(AtoiBody(s))
    ELSE DigitsValue(AtoiBody(s))

RECURSIVE StrLess(_, _)
\* Go's s < t on strings: byte-wise lexicographic, a proper prefix is less
StrLess(s, t) ==
    IF t = <<>> THEN FALSE
    ELSE IF s = <<>> THEN TRUE
    ELSE IF Head(s) # Head(t) THEN Head(s) < Head(t)
    ELSE StrLess(Tail(s), Tail(t))

(***************************************************************************)
(* The version comparator.                                                 *)
(***************************************************************************)
Min2(a, b) == IF a < b THEN a ELSE b

RECURSIVE CompareParts(_, _, _)
\* the loop of compareVersions from index i, then the length comparison
CompareParts(v1Parts, v2Parts, i) ==
    IF i > Min2(Len(v1Parts), Len(v2Parts))
    THEN IF Len(v1Parts) < Len(v2Parts) THEN 0 - 1
         ELSE IF Len(v1Parts) > Len(v2Parts) THEN 1
         ELSE 0
    ELSE IF ~AtoiOk(v1Parts[i]) \/ ~AtoiOk(v2Parts[i])
    THEN IF StrLess(v1Parts[i], v2Parts[i]) THEN 0 - 1
         ELSE IF StrLess(v2Parts[i], v1Parts[i]) THEN 1
         ELSE CompareParts(v1Parts, v2Parts, i + 1)
    ELSE IF AtoiValue(v1Parts[i]) < AtoiValue(v2Parts[i]) THEN 0 - 1
    ELSE IF AtoiValue(v1Parts[i]) > AtoiValue(v2Parts[i]) THEN 1
    ELSE CompareParts(v1Parts, v2Parts, i + 1)

compareVersions(v1, v2) ==
    CompareParts(Split(TrimPrefixV(v1), Code["."]), Split(TrimPrefixV(v2), Code["."]), 1)

\* a version extraction that falls back on the last part of the name
extractVersionOrName(module) ==
    LET parts == Split(module.Name, Code[":"])
    IN  parts[Len(parts)]

\* extractVersion: the second ':'-separated part of the module name, or ""
extractVersion(module) ==
    LET parts == Split(module.Name, Code[":"])
    IN  IF Len(parts) > 1 THEN parts[2] ELSE <<>>

(***************************************************************************)
(* The pairwise predicate.                                                 *)
(***************************************************************************)
FixedPrice == "FixedPrice"

MarketPrice == "MarketPrice"

\* data.GetModuleID: the identifier of a module reference name[:version];
\* a reference with no identifier is an error
GetModuleID(module) ==
    LET parts == Split(module.Name, Code[":"])
    IN  [id |-> parts[1], err |-> parts[1] = <<>>]

\* data.GetMutualServices: the services both lists name
GetMutualServices(a, b) == SelectSeq(a, LAMBDA x : \E i \in 1..Len(b) : b[i] = x)

\* the loop that looks for moduleID in resourceOffer.Modules
HasModule(modules, moduleID) == \E i \in 1..Len(modules) : modules[i] = moduleID

\* the price check with the both-FixedPrice condition left out
CannotAffordAnyMode(resourceOffer, jobOffer) ==
    resourceOffer.DefaultPricing.InstructionPrice > jobOffer.Pricing.InstructionPrice

\* a price check that filters nothing out
CannotAffordNever(resourceOffer, jobOffer) == FALSE

\* if both are fixed price then we filter out "cannot afford"
CannotAfford(resourceOffer, jobOffer) ==
    /\ resourceOffer.Mode = FixedPrice
    /\ jobOffer.Mode = FixedPrice
    /\ resourceOffer.DefaultPricing.InstructionPrice > jobOffer.Pricing.InstructionPrice

\* the cascade with the market-price rejection left out
doOffersMatchMarketOpen(resourceOffer, jobOffer, allowlist) ==
    IF resourceOffer.Spec.CPU < jobOffer.Spec.CPU THEN FALSE
    ELSE IF resourceOffer.Spec.GPU < jobOffer.Spec.GPU THEN FALSE
    ELSE IF resourceOffer.Spec.RAM < jobOffer.Spec.RAM THEN FALSE
    ELSE IF Len(resourceOffer.Modules) > 0 /\ GetModuleID(jobOffer.Module).err THEN FALSE
    ELSE IF Len(resourceOffer.Modules) > 0
            /\ ~HasModule(resourceOffer.Modules, GetModuleID(jobOffer.Module).id) THEN FALSE
    ELSE IF GetModuleID(jobOffer.Module).err THEN FALSE
    ELSE IF GetModuleID(jobOffer.Module).id \notin DOMAIN allowlist THEN FALSE
    ELSE IF extractVersion(jobOffer.Module) = <<>> THEN FALSE
    ELSE IF compareVersions(extractVersion(jobOffer.Module),
                            allowlist[GetModuleID(jobOffer.Module).id]) < 0 THEN FALSE
    ELSE IF CannotAfford(resourceOffer, jobOffer) THEN FALSE
    ELSE IF Len(GetMutualServices(resourceOffer.Services.Mediator,
                                  jobOffer.Services.Mediator)) = 0 THEN FALSE
    ELSE IF resourceOffer.Services.Solver # jobOffer.Services.Solver THEN FALSE
    ELSE TRUE

doOffersMatch(resourceOffer, jobOffer, allowlist) ==
    IF resourceOffer.Spec.CPU < jobOffer.Spec.CPU THEN FALSE
    ELSE IF resourceOffer.Spec.GPU < jobOffer.Spec.GPU THEN FALSE
    ELSE IF resourceOffer.Spec.RAM < jobOffer.Spec.RAM THEN FALSE
    ELSE IF Len(resourceOffer.Modules) > 0 /\ GetModuleID(jobOffer.Module).err THEN FALSE
    ELSE IF Len(resourceOffer.Modules) > 0
            /\ ~HasModule(resourceOffer.Modules, GetModuleID(jobOffer.Module).id) THEN FALSE
    ELSE IF GetModuleID(jobOffer.Module).err THEN FALSE
    ELSE IF GetModuleID(jobOffer.Module).id \notin DOMAIN allowlist THEN FALSE
    ELSE IF extractVersion(jobOffer.Module) = <<>> THEN FALSE
    ELSE IF compareVersions(extractVersion(jobOffer.Module),
                            allowlist[GetModuleID(jobOffer.Module).id]) < 0 THEN FALSE
    ELSE IF resourceOffer.Mode = MarketPrice THEN FALSE
    ELSE IF CannotAfford(resourceOffer, jobOffer) THEN FALSE
    ELSE IF Len(GetMutualServices(resourceOffer.Services.Mediator,
                                  jobOffer.Services.Mediator)) = 0 THEN FALSE
    ELSE IF resourceOffer.Services.Solver # jobOffer.Services.Solver THEN FALSE
    ELSE TRUE

(***************************************************************************)
(* The offers the store can hold and the allowlist handed to each pass.    *)
(***************************************************************************)
MaxPasses == 3

MaxOverlapPasses == 2

MaxErrors == 1

ResIds == {"r1", "r2", "r3", "r4"}

JobIds == {"j1", "j2", "j3"}

Callers == {"c1", "c2"}

Pairs == ResIds \X JobIds

\* instruction price of each resource offer: r2, r3 and r4 tie below r1
ResourcePrice == [id \in ResIds |-> IF id = "r1" THEN 2 ELSE 1]

\* budget ceiling of each job offer: j1 cannot afford r1
JobPrice == [id \in JobIds |-> IF id = "j1" THEN 1 ELSE 2]

ResourceOfferOf ==
    [id \in ResIds |->
        [ID |-> id,
         Spec |-> [CPU |-> 1, GPU |-> 1, RAM |-> 1],
         Modules |-> <<>>,
         Mode |-> IF id = "r4" THEN MarketPrice ELSE FixedPrice,
         DefaultPricing |-> [InstructionPrice |-> ResourcePrice[id]],
         Services |-> [Mediator |-> <<"med">>, Solver |-> "sol"]]]

JobOfferOf ==
    [id \in JobIds |->
        [ID |-> id,
         Spec |-> [CPU |-> 1, GPU |-> 0, RAM |-> 1],
         Module |-> [Name |-> IF id = "j3" THEN S(<<"m">>)
                                           ELSE S(<<"m", ":", "1", ".", "0">>)],
         Mode |-> FixedPrice,
         Pricing |-> [InstructionPrice |-> JobPrice[id]],
         Services |-> [Mediator |-> <<"med">>, Solver |-> "sol"]]]

PassAllowlist == (S(<<"m">>) :> S(<<"0", ".", "9">>))

VARIABLES
    storeResourceOffers,  \* the store's resource offers (IDs), in store order
    storeJobOffers,       \* the store's job offers (IDs), in store order
    matchDecisions,       \* the store's match decisions
    pass,                 \* per caller: the activation of getMatchingDeals
    passes,               \* passes invoked so far
    errs,                 \* store calls that have failed for the store's own reasons
    dealErrs,             \* GetDeal calls that have failed
    addCalls,             \* per pair: AddMatchDecision calls the store processed
    returned,             \* per pair: deals returned to a caller
    quiet,                \* the last pass ended without error and nothing arrived since
    overlap,              \* whether callers may run passes at the same time
    arriving,             \* the offers (IDs) that reach the store in this run
    compatible,           \* the pairs of offers for which doOffersMatch answers true
    mIn,                  \* predicate harness: the inputs
    mOut                  \* predicate harness: the result

vars ==
    <<storeResourceOffers, storeJobOffers, matchDecisions, pass, passes, errs,
      dealErrs, addCalls, returned, quiet, overlap, arriving, compatible, mIn, mOut>>

storeVars == <<storeResourceOffers, storeJobOffers, matchDecisions>>

runVars == <<overlap, arriving, compatible>>

harnessVars == <<mIn, mOut>>

Range(seq) == {seq[i] : i \in 1..Len(seq)}

(***************************************************************************)
(* The store, as the pass sees it.                                         *)
(***************************************************************************)
NoDealID == <<>>

\* GetMatchDecision(resourceOffer, jobOffer) # nil
HasDecision(ro, jo) ==
    \E d \in matchDecisions : d.ResourceOffer = ro /\ d.JobOffer = jo

\* an offer leaves the NotMatched lists once a decision carrying a deal names it
ResourceOfferMatched(ro) ==
    \E d \in matchDecisions : d.ResourceOffer = ro /\ d.Deal # NoDealID

JobOfferMatched(jo) ==
    \E d \in matchDecisions : d.JobOffer = jo /\ d.Deal # NoDealID

\* GetResourceOffers(GetResourceOffersQuery{NotMatched: true})
NotMatchedResourceOffers ==
    SelectSeq(storeResourceOffers, LAMBDA ro : ~ResourceOfferMatched(ro))

\* GetJobOffers(GetJobOffersQuery{NotMatched: true})
NotMatchedJobOffers ==
    SelectSeq(storeJobOffers, LAMBDA jo : ~JobOfferMatched(jo))

MatchDecision(ro, jo, dealID, result) ==
    [ResourceOffer |-> ro, JobOffer |-> jo, Deal |-> dealID, Result |-> result]

(***************************************************************************)
(* The activation record of getMatchingDeals.  The fields named as in the  *)
(* code are its locals; calls, adds, evals, failed, second and clean are   *)
(* bookkeeping the properties read.                                        *)
(***************************************************************************)
NoDeal == [ID |-> NoDealID, JobOffer |-> "", ResourceOffer |-> ""]

IdlePass ==
    [pc |-> "idle",
     resourceOffers |-> <<>>, jobOffers |-> <<>>,
     ji |-> 0, ri |-> 0,
     matchingResourceOffers |-> <<>>,
     deal |-> NoDeal, wi |-> 0,
     deals |-> <<>>, err |-> FALSE,
     calls |-> 0, adds |-> 0, evals |-> 0,
     failed |-> FALSE, second |-> FALSE, clean |-> TRUE]

\* the locals are dead once the pass has returned
Finished(r, deals, err) ==
    [IdlePass EXCEPT !.pc = "returned", !.deals = deals, !.err = err,
                     !.calls = r.calls, !.adds = r.adds, !.evals = r.evals,
                     !.failed = r.failed, !.second = r.second, !.clean = r.clean]

\* return nil, err
ReturnError(r) == Finished(r, <<>>, TRUE)

\* return deals, nil
ReturnDeals(r) == Finished(r, r.deals, FALSE)

\* an error return that hands back the deals gathered so far
StoreErrorKeepingDeals(r) == Finished([r EXCEPT !.failed = TRUE], r.deals, TRUE)

\* a store call came back with an error
StoreError(r) == ReturnError([r EXCEPT !.failed = TRUE])

\* an outer loop that asks the store for the resource offers again
StartJobReloading(r, j) ==
    IF j > Len(r.jobOffers) \/ r.resourceOffers = <<>> THEN ReturnDeals(r)
    ELSE [r EXCEPT !.pc = "getMatchDecision", !.ji = j, !.ri = 1,
                   !.resourceOffers = IF NotMatchedResourceOffers = <<>> THEN r.resourceOffers
                                      ELSE NotMatchedResourceOffers,
                   !.matchingResourceOffers = <<>>, !.deal = NoDeal, !.wi = 0]

\* the outer loop reaches job offer j; with no resource offers loaded no
\* job offer gets a candidate and the pass runs through to its return
StartJob(r, j) ==
    IF j > Len(r.jobOffers) \/ r.resourceOffers = <<>> THEN ReturnDeals(r)
    ELSE [r EXCEPT !.pc = "getMatchDecision", !.ji = j, !.ri = 1,
                   !.matchingResourceOffers = <<>>, !.deal = NoDeal, !.wi = 0]

\* the inner loop moves on; after the last resource offer the candidates decide
NextResourceOffer(r) ==
    IF r.ri < Len(r.resourceOffers)
    THEN [r EXCEPT !.pc = "getMatchDecision", !.ri = r.ri + 1]
    ELSE IF Len(r.matchingResourceOffers) > 0 THEN [r EXCEPT !.pc = "sort"]
    ELSE StartJob(r, r.ji + 1)

\* the inner loop body without the check for an existing decision
VisitIgnoringDecision(r, decided) ==
    LET ro == r.resourceOffers[r.ri]
        jo == r.jobOffers[r.ji]
    IN  IF <<ro, jo>> \in compatible
        THEN NextResourceOffer(
                 [r EXCEPT !.evals = r.evals + 1,
                           !.matchingResourceOffers = Append(r.matchingResourceOffers, ro)])
        ELSE [r EXCEPT !.evals = r.evals + 1, !.pc = "addNegative"]

\* the inner loop body that takes any decision of the job offer for the pair's
VisitOncePerJob(r, decided) ==
    LET ro == r.resourceOffers[r.ri]
        jo == r.jobOffers[r.ji]
    IN  IF decided \/ \E d \in matchDecisions : d.JobOffer = jo
        THEN NextResourceOffer(r)
        ELSE IF <<ro, jo>> \in compatible
        THEN NextResourceOffer(
                 [r EXCEPT !.evals = r.evals + 1,
                           !.matchingResourceOffers = Append(r.matchingResourceOffers, ro)])
        ELSE [r EXCEPT !.evals = r.evals + 1, !.pc = "addNegative"]

\* the inner loop body that leaves an incompatible pair without its decision
VisitWithoutNegative(r, decided) ==
    LET ro == r.resourceOffers[r.ri]
        jo == r.jobOffers[r.ji]
    IN  IF decided THEN NextResourceOffer(r)
        ELSE IF <<ro, jo>> \in compatible
        THEN NextResourceOffer(
                 [r EXCEPT !.evals = r.evals + 1,
                           !.matchingResourceOffers = Append(r.matchingResourceOffers, ro)])
        ELSE NextResourceOffer([r EXCEPT !.evals = r.evals + 1])

\* the body of the inner loop once GetMatchDecision has answered
VisitResourceOffer(r, decided) ==
    LET ro == r.resourceOffers[r.ri]
        jo == r.jobOffers[r.ji]
    IN  IF decided THEN NextResourceOffer(r)
        ELSE IF <<ro, jo>> \in compatible
        THEN NextResourceOffer(
                 [r EXCEPT !.evals = r.evals + 1,
                           !.matchingResourceOffers = Append(r.matchingResourceOffers, ro)])
        ELSE [r EXCEPT !.evals = r.evals + 1, !.pc = "addNegative"]

\* ListOfResourceOffers.Less
Less(a, i, j) ==
    ResourceOfferOf[a[i]].DefaultPricing.InstructionPrice
        < ResourceOfferOf[a[j]].DefaultPricing.InstructionPrice

Orderings(a) == {s \in [1..Len(a) -> Range(a)] : Range(s) = Range(a)}

\* sort.Sort: any order of the candidates that Less does not contradict;
\* the order of equal elements is whatever the sort leaves
SortResults(a) ==
    {s \in Orderings(a) : \A i \in 1..(Len(s) - 1) : ~Less(s, i + 1, i)}

\* the other end of the sorted candidates
CheapestLast(sorted) == sorted[Len(sorted)]

\* matchingResourceOffers[0]
Cheapest(sorted) == sorted[1]

\* data.GetDeal: the deal of a job offer and a resource offer, identified by its content
GetDeal(jo, ro) == [ID |-> <<jo, ro>>, JobOffer |-> jo, ResourceOffer |-> ro]

\* the deal ID written with every candidate
AddDealIDAlways(r, ro) == r.deal.ID

\* the deal ID written with candidate ro
AddDealID(r, ro) == IF r.deal.ResourceOffer = ro THEN r.deal.ID ELSE NoDealID

\* after the positive decision of candidate wi is written
NextCandidate(r) ==
    IF r.wi < Len(r.matchingResourceOffers) THEN [r EXCEPT !.wi = r.wi + 1]
    ELSE StartJob([r EXCEPT !.deals = Append(r.deals, r.deal)], r.ji + 1)

(***************************************************************************)
(* Actions.  Each step of a pass is one store call together with the local *)
(* computation that follows it up to the next store call.                  *)
(***************************************************************************)
Active(c) == pass[c].pc \notin {"idle", "returned"}

PassLimit == IF overlap THEN MaxOverlapPasses ELSE MaxPasses

\* the number of deals for pair pr in a returned deal list
DealsFor(deals, pr) ==
    Cardinality({i \in 1..Len(deals) :
                    deals[i].ResourceOffer = pr[1] /\ deals[i].JobOffer = pr[2]})

\* caller c's activation becomes r; a pass that returns hands its deals over
Continue(c, r) ==
    /\ pass' = [pass EXCEPT ![c] = r]
    /\ returned' = IF r.pc = "returned"
                   THEN [pr \in Pairs |-> returned[pr] + DealsFor(r.deals, pr)]
                   ELSE returned
    /\ quiet' = IF r.pc = "returned" THEN (~r.err /\ r.clean) ELSE quiet

Called(r) == [r EXCEPT !.calls = r.calls + 1]

\* a store call fails for a reason of the store's own
CallFails(c) ==
    /\ errs + dealErrs < MaxErrors
    /\ errs' = errs + 1
    /\ Continue(c, StoreError(Called(pass[c])))

\* the controller invokes getMatchingDeals; passes that do not overlap all
\* run as c1, and of two overlapping callers c1 is the one that starts first
Invoke(c) ==
    /\ ~Active(c)
    /\ passes < PassLimit
    /\ overlap \/ (c = "c1" /\ \A o \in Callers : ~Active(o))
    /\ c = "c1" \/ pass["c1"].pc # "idle"
    /\ passes' = passes + 1
    /\ pass' = [pass EXCEPT ![c] = [IdlePass EXCEPT !.pc = "getResourceOffers",
                                                    !.second = quiet]]
    /\ UNCHANGED <<storeVars, errs, dealErrs, addCalls, returned, quiet, runVars,
                   harnessVars>>

GetResourceOffers(c) ==
    /\ pass[c].pc = "getResourceOffers"
    /\ \/ CallFails(c)
       \/ /\ Continue(c, [Called(pass[c]) EXCEPT !.pc = "getJobOffers",
                              !.resourceOffers = NotMatchedResourceOffers])
          /\ UNCHANGED errs
    /\ UNCHANGED <<storeVars, passes, dealErrs, addCalls, runVars, harnessVars>>

GetJobOffers(c) ==
    /\ pass[c].pc = "getJobOffers"
    /\ \/ CallFails(c)
       \/ /\ Continue(c, StartJob([Called(pass[c]) EXCEPT
                                       !.jobOffers = NotMatchedJobOffers], 1))
          /\ UNCHANGED errs
    /\ UNCHANGED <<storeVars, passes, dealErrs, addCalls, runVars, harnessVars>>

GetMatchDecision(c) ==
    /\ pass[c].pc = "getMatchDecision"
    /\ \/ CallFails(c)
       \/ /\ Continue(c, VisitResourceOffer(Called(pass[c]),
                             HasDecision(pass[c].resourceOffers[pass[c].ri],
                                         pass[c].jobOffers[pass[c].ji])))
          /\ UNCHANGED errs
    /\ UNCHANGED <<storeVars, passes, dealErrs, addCalls, runVars, harnessVars>>

\* AddMatchDecision as the store runs it: a pair that has a decision is refused
AddMatchDecision(c, ro, jo, dealID, result, next) ==
    LET r == [Called(pass[c]) EXCEPT !.adds = pass[c].adds + 1]
    IN  \/ /\ errs + dealErrs < MaxErrors
           /\ errs' = errs + 1
           /\ Continue(c, StoreError(r))
           /\ UNCHANGED <<matchDecisions, addCalls>>
        \/ /\ addCalls' = [addCalls EXCEPT ![<<ro, jo>>] = addCalls[<<ro, jo>>] + 1]
           /\ UNCHANGED errs
           /\ IF HasDecision(ro, jo)
              THEN /\ Continue(c, StoreError(r))
                   /\ UNCHANGED matchDecisions
              ELSE /\ matchDecisions' =
                          matchDecisions \cup {MatchDecision(ro, jo, dealID, result)}
                   /\ Continue(c, next)

AddNegative(c) ==
    /\ pass[c].pc = "addNegative"
    /\ LET r == [Called(pass[c]) EXCEPT !.adds = pass[c].adds + 1]
       IN  AddMatchDecision(c, r.resourceOffers[r.ri], r.jobOffers[r.ji],
                            NoDealID, FALSE, NextResourceOffer(r))
    /\ UNCHANGED <<storeResourceOffers, storeJobOffers, passes, dealErrs, runVars,
                   harnessVars>>

\* the candidates are sorted and the deal is built; GetDeal may fail
SortAndGetDeal(c) ==
    /\ pass[c].pc = "sort"
    /\ \/ /\ errs + dealErrs < MaxErrors
          /\ dealErrs' = dealErrs + 1
          /\ Continue(c, ReturnError(pass[c]))
       \/ /\ \E sorted \in SortResults(pass[c].matchingResourceOffers) :
                Continue(c, [pass[c] EXCEPT
                    !.pc = "addPositive",
                    !.matchingResourceOffers = sorted,
                    !.deal = GetDeal(pass[c].jobOffers[pass[c].ji], Cheapest(sorted)),
                    !.wi = 1])
          /\ UNCHANGED dealErrs
    /\ UNCHANGED <<storeVars, passes, errs, addCalls, runVars, harnessVars>>

\* the positive writes with the error of a refused write dropped
AddPositiveUnchecked(c) ==
    /\ pass[c].pc = "addPositive"
    /\ LET r == [Called(pass[c]) EXCEPT !.adds = pass[c].adds + 1]
           ro == r.matchingResourceOffers[r.wi]
           jo == r.jobOffers[r.ji]
       IN  \/ /\ errs + dealErrs < MaxErrors
              /\ errs' = errs + 1
              /\ Continue(c, StoreError(r))
              /\ UNCHANGED <<matchDecisions, addCalls>>
           \/ /\ addCalls' = [addCalls EXCEPT ![<<ro, jo>>] = addCalls[<<ro, jo>>] + 1]
              /\ UNCHANGED errs
              /\ matchDecisions' =
                     IF HasDecision(ro, jo) THEN matchDecisions
                     ELSE matchDecisions \cup {MatchDecision(ro, jo, AddDealID(r, ro), TRUE)}
              /\ Continue(c, NextCandidate(r))
    /\ UNCHANGED <<storeResourceOffers, storeJobOffers, passes, dealErrs, runVars,
                   harnessVars>>

AddPositive(c) ==
    /\ pass[c].pc = "addPositive"
    /\ LET r == [Called(pass[c]) EXCEPT !.adds = pass[c].adds + 1]
           ro == r.matchingResourceOffers[r.wi]
       IN  AddMatchDecision(c, ro, r.jobOffers[r.ji], AddDealID(r, ro), TRUE,
                            NextCandidate(r))
    /\ UNCHANGED <<storeResourceOffers, storeJobOffers, passes, dealErrs, runVars,
                   harnessVars>>

\* doOffersMatch reads nothing but the two offers and the allowlist, which do
\* not change: its answers for the pairs of offers a pass can visit
DoOffersMatchAnswers ==
    {pr \in Pairs :
        doOffersMatch(ResourceOfferOf[pr[1]], JobOfferOf[pr[2]], PassAllowlist)}

\* the resource offers that reach the store in this run
Arriving == arriving \cap ResIds

\* the job offers that reach the store
ArrivingJobs == arriving \cap JobIds

\* an offer arriving makes every running pass one that did not see it
Disturbed == [c \in Callers |-> [pass[c] EXCEPT !.second = FALSE, !.clean = FALSE]]

\* the API layer adds a resource offer to the store
IngestResourceOffer(id) ==
    /\ id \in Arriving
    /\ id \notin Range(storeResourceOffers)
    /\ storeResourceOffers' = Append(storeResourceOffers, id)
    /\ pass' = Disturbed
    /\ quiet' = FALSE
    /\ UNCHANGED <<storeJobOffers, matchDecisions, passes, errs, dealErrs, addCalls,
                   returned, runVars, harnessVars>>

\* the API layer adds a job offer to the store
IngestJobOffer(id) ==
    /\ id \in ArrivingJobs
    /\ id \notin Range(storeJobOffers)
    /\ storeJobOffers' = Append(storeJobOffers, id)
    /\ pass' = Disturbed
    /\ quiet' = FALSE
    /\ UNCHANGED <<storeResourceOffers, matchDecisions, passes, errs, dealErrs, addCalls,
                   returned, runVars, harnessVars>>

InitStore ==
    /\ storeResourceOffers = <<>>
    /\ storeJobOffers = <<>>
    /\ matchDecisions = {}
    /\ pass = [c \in Callers |-> IdlePass]
    /\ passes = 0
    /\ errs = 0
    /\ dealErrs = 0
    /\ addCalls = [pr \in Pairs |-> 0]
    /\ returned = [pr \in Pairs |-> 0]
    /\ quiet = FALSE
    /\ compatible = DoOffersMatchAnswers

NoHarness == mIn = <<>> /\ mOut = "none"

\* r1 is dearer than r2 and r3, which tie; j1 cannot afford r1
Init ==
    /\ InitStore
    /\ NoHarness
    /\ overlap = FALSE
    /\ arriving = {"r1", "r2", "r3", "j1", "j2"}

InitOverlap ==
    /\ InitStore
    /\ NoHarness
    /\ overlap = TRUE
    /\ arriving = {"r1", "r2", "j1", "j2"}

Next ==
    \/ \E id \in ResIds : IngestResourceOffer(id)
    \/ \E id \in JobIds : IngestJobOffer(id)
    \/ \E c \in Callers : Invoke(c)
    \/ \E c \in Callers : GetResourceOffers(c)
    \/ \E c \in Callers : GetJobOffers(c)
    \/ \E c \in Callers : GetMatchDecision(c)
    \/ \E c \in Callers : AddNegative(c)
    \/ \E c \in Callers : SortAndGetDeal(c)
    \/ \E c \in Callers : AddPositive(c)

\* passes run one after another
Spec == Init /\ [][Next]_vars

\* two callers whose passes may overlap
SpecOverlap == InitOverlap /\ [][Next]_vars

\* a step of caller c's pass: each store call returns
PassStep(c) ==
    \/ GetResourceOffers(c)
    \/ GetJobOffers(c)
    \/ GetMatchDecision(c)
    \/ AddNegative(c)
    \/ SortAndGetDeal(c)
    \/ AddPositive(c)

\* the dearer r1 and the cheaper r2, j1 that can afford only r2, and j2
InitFair ==
    /\ InitStore
    /\ NoHarness
    /\ overlap = FALSE
    /\ arriving = {"r1", "r2", "j1", "j2"}

\* passes run one after another, every pass that has started runs on to its
\* return, and the controller keeps invoking passes
SpecFair ==
    /\ InitFair
    /\ [][Next]_vars
    /\ \A c \in Callers : WF_vars(PassStep(c))
    /\ WF_vars(Invoke("c1"))

(***************************************************************************)
(* The predicate on its own: one evaluation of doOffersMatch on inputs     *)
(* drawn from bounded sets.                                                *)
(***************************************************************************)
MaxUnits == 1

MaxPrice == 2

Units == 0..MaxUnits

Prices == 1..MaxPrice

ResourceSpecs == [CPU : Units, GPU : Units, RAM : Units]

\* a job asks the same amount in every dimension; zero asks nothing
JobSpecs == {[CPU |-> u, GPU |-> u, RAM |-> u] : u \in Units}

ModuleLists == {<<>>, <<S(<<"m">>)>>, <<S(<<"n">>), S(<<"b">>)>>}

ModuleNames ==
    {S(<<"m", ":", "1", ".", "0">>), S(<<"m", ":", "v", "0", ".", "9">>),
     S(<<"m">>), S(<<"m", ":">>), S(<<":", "1", ".", "0">>),
     S(<<"n", ":", "1", ".", "0">>)}

Allowlists ==
    {<<>>,
     (S(<<"m">>) :> S(<<"1", ".", "0">>)),
     (S(<<"m">>) :> S(<<"0", ".", "9">>) @@ S(<<"n">>) :> S(<<"1", ".", "1">>))}

ResourceMediators == {<<"med1">>, <<"med2", "med1">>, <<>>}

JobMediators == {<<"med1">>, <<"med2">>}

Solvers == {"sol1", "sol2"}

MatchInputs ==
    [resourceOffer :
        [ID : {"r"}, Spec : ResourceSpecs, Modules : ModuleLists,
         Mode : {FixedPrice, MarketPrice},
         DefaultPricing : [InstructionPrice : Prices],
         Services : [Mediator : ResourceMediators, Solver : Solvers]],
     jobOffer :
        [ID : {"j"}, Spec : JobSpecs, Module : [Name : ModuleNames],
         Mode : {FixedPrice, MarketPrice},
         Pricing : [InstructionPrice : Prices],
         Services : [Mediator : JobMediators, Solver : {"sol1"}]],
     allowlist : Allowlists]

InitMatch ==
    /\ InitStore
    /\ overlap = FALSE
    /\ arriving = {}
    /\ mIn \in MatchInputs
    /\ mOut = "none"

\* one call of doOffersMatch
Evaluate ==
    /\ mOut = "none"
    /\ mOut' = IF doOffersMatch(mIn.resourceOffer, mIn.jobOffer, mIn.allowlist)
               THEN "match" ELSE "no match"
    /\ UNCHANGED <<storeVars, pass, passes, errs, dealErrs, addCalls, returned, quiet,
                   runVars, mIn>>

NextMatch == Evaluate

SpecMatch == InitMatch /\ [][NextMatch]_vars

(***************************************************************************)
(* The two gates that close for whole classes of offers: a resource offer  *)
(* in market-price mode (r4) and a job offer whose module reference has no *)
(* version (j3).  A run is either one evaluation of the predicate on such  *)
(* an offer, or passes over a store that such offers reach.                *)
(***************************************************************************)
\* a module reference with no ':' in it, or with nothing between its first
\* ':' and the next ':' or the end
Versionless(jobOffer) ==
    LET name == jobOffer.Module.Name
    IN  \A i \in 1..Len(name) :
            (name[i] = Code[":"] /\ \A k \in 1..(i - 1) : name[k] # Code[":"])
                => (i = Len(name) \/ name[i + 1] = Code[":"])

GateInputs ==
    {in \in MatchInputs :
        in.resourceOffer.Mode = MarketPrice \/ Versionless(in.jobOffer)}

InitGates ==
    /\ InitStore
    /\ overlap = FALSE
    /\ \/ arriving = {} /\ mIn \in GateInputs /\ mOut = "none"
       \/ arriving = {"r2", "r4", "j2", "j3"} /\ NoHarness

NextGates ==
    \/ arriving = {} /\ Evaluate
    \/ arriving # {} /\ Next

SpecGates == InitGates /\ [][NextGates]_vars

(***************************************************************************)
(* The version comparator on its own: one call of compareVersions on two   *)
(* dotted versions written from tuples of numbers.                         *)
(***************************************************************************)
MaxDigit == 2

\* the one-digit numbers up to MaxDigit, and 10, which sorts before 2 as a
\* string and after it as a number
VersionNumbers == (0..MaxDigit) \cup {10}

SegmentCounts == {1, 2, 3}

VersionTuples == UNION {[1..n -> VersionNumbers] : n \in SegmentCounts}

RECURSIVE Itoa(_)
\* the decimal digits of a natural number
Itoa(n) ==
    IF n < 10 THEN <<Code["0"] + n>>
    ELSE Append(Itoa(n \div 10), Code["0"] + (n % 10))

RECURSIVE Join(_, _)
\* the parts with sep between them
Join(parts, sep) ==
    IF Len(parts) = 1 THEN parts[1]
    ELSE parts[1] \o <<sep>> \o Join(Tail(parts), sep)

\* the version string of a tuple of numbers, with or without the leading v
Dotted(t, prefixed) ==
    (IF prefixed THEN <<Code["v"]>> ELSE <<>>)
        \o Join([i \in 1..Len(t) |-> Itoa(t[i])], Code["."])

CompareInputs ==
    {[t1 |-> t1, t2 |-> t2, v1 |-> Dotted(t1, p1), v2 |-> Dotted(t2, p2), result |-> 0] :
        t1 \in VersionTuples, t2 \in VersionTuples, p1 \in BOOLEAN, p2 \in BOOLEAN}

InitCompare ==
    /\ InitStore
    /\ overlap = FALSE
    /\ arriving = {}
    /\ mIn \in CompareInputs
    /\ mOut = "none"

\* one call of compareVersions
Compare ==
    /\ mOut = "none"
    /\ mIn' = [mIn EXCEPT !.result = compareVersions(mIn.v1, mIn.v2)]
    /\ mOut' = "compared"
    /\ UNCHANGED <<storeVars, pass, passes, errs, dealErrs, addCalls, returned, quiet,
                   runVars>>

NextCompare == Compare

SpecCompare == InitCompare /\ [][NextCompare]_vars

(***************************************************************************)
(* The comparator as an order: compareVersions on the pairs of three       *)
(* versions whose segments are numbers or not.                             *)
(***************************************************************************)
MaxSegments == 2

\* 2 and 10 parse as integers, 1a does not
OrderSegments == {S(<<"2">>), S(<<"1", "0">>), S(<<"1", "a">>)}

OrderVersions ==
    {Join(t, Code["."]) : t \in UNION {[1..n -> OrderSegments] : n \in 1..MaxSegments}}

OrderInputs ==
    [a : OrderVersions, b : OrderVersions, c : OrderVersions,
     result : {[ab |-> 0, ba |-> 0, bc |-> 0, ac |-> 0]}]

InitOrder ==
    /\ InitStore
    /\ overlap = FALSE
    /\ arriving = {}
    /\ mIn \in OrderInputs
    /\ mOut = "none"

\* the calls of compareVersions that relate a, b and c
CompareThree ==
    /\ mOut = "none"
    /\ mIn' = [mIn EXCEPT !.result = [ab |-> compareVersions(mIn.a, mIn.b),
                                     ba |-> compareVersions(mIn.b, mIn.a),
                                     bc |-> compareVersions(mIn.b, mIn.c),
                                     ac |-> compareVersions(mIn.a, mIn.c)]]
    /\ mOut' = "ordered"
    /\ UNCHANGED <<storeVars, pass, passes, errs, dealErrs, addCalls, returned, quiet,
                   runVars>>

NextOrder == CompareThree

SpecOrder == InitOrder /\ [][NextOrder]_vars

(***************************************************************************)
(* Properties.                                                             *)
(***************************************************************************)
Price(ro) == ResourceOfferOf[ro].DefaultPricing.InstructionPrice

\* the resource offer and the job offer a pass at getMatchDecision is visiting
VisitedResourceOffer(c) == pass[c].resourceOffers[pass[c].ri]

VisitedJobOffer(c) == pass[c].jobOffers[pass[c].ji]

\* GetMatchDecision calls of the pass that answered without leading to an evaluation
Skips(c) == pass[c].calls - 2 - pass[c].adds - pass[c].evals

\* C1 (idempotence): a pass invoked right after a pass that completed without
\* error, with no offer arriving in between, makes no AddMatchDecision call,
\* never reaches a write or a deal, and returns no deals.
C1_Idempotent ==
    \A c \in Callers :
        pass[c].second =>
            /\ pass[c].adds = 0
            /\ pass[c].deals = <<>>
            /\ pass[c].pc \notin {"addNegative", "sort", "addPositive"}

\* a second pass that visited a decided pair and returned without error
C1_Witness ==
    \E c \in Callers :
        /\ pass[c].second
        /\ pass[c].pc = "returned"
        /\ ~pass[c].err
        /\ pass[c].calls >= 3
        /\ matchDecisions # {}

\* C2 (no re-evaluation): when GetMatchDecision answers with an existing
\* decision for the visited pair, that step does not evaluate doOffersMatch,
\* does not move to the negative write, does not add the resource offer to
\* the candidates, and writes nothing.
C2_NoReevaluation ==
    [][\A c \in Callers :
          (/\ pass[c].pc = "getMatchDecision"
           /\ pass'[c].calls = pass[c].calls + 1
           /\ ~pass'[c].failed
           /\ HasDecision(VisitedResourceOffer(c), VisitedJobOffer(c)))
          => /\ pass'[c].evals = pass[c].evals
             /\ pass'[c].pc # "addNegative"
             /\ VisitedResourceOffer(c) \notin Range(pass'[c].matchingResourceOffers)
             /\ addCalls' = addCalls
             /\ matchDecisions' = matchDecisions]_vars

\* a pass has skipped a decided pair
C2_Witness ==
    \E c \in Callers : ~pass[c].failed /\ Skips(c) > 0

\* C3 (decision uniqueness, sequential passes): the store never processes a
\* second AddMatchDecision for a pair, so no pair has two decisions.
C3_OneDecisionPerPair ==
    /\ \A pr \in Pairs : addCalls[pr] <= 1
    /\ \A d, e \in matchDecisions :
          (d.ResourceOffer = e.ResourceOffer /\ d.JobOffer = e.JobOffer) => d = e

\* a later pass has met decided pairs after new offers arrived
C3_Witness ==
    /\ passes >= 2
    /\ Cardinality(matchDecisions) >= 3
    /\ \E c \in Callers : Skips(c) > 0 /\ pass[c].evals > 0

\* C4 (cheapest wins): the resource offer of a formed deal has the least
\* price among the candidates of its job offer.
C4_CheapestWins ==
    \A c \in Callers :
        pass[c].pc = "addPositive" =>
            /\ pass[c].deal.ResourceOffer \in Range(pass[c].matchingResourceOffers)
            /\ \A ro \in Range(pass[c].matchingResourceOffers) :
                  Price(pass[c].deal.ResourceOffer) <= Price(ro)

\* a deal formed from candidates of different prices
C4_Witness ==
    \E c \in Callers :
        /\ pass[c].pc = "addPositive"
        /\ \E a, b \in Range(pass[c].matchingResourceOffers) : Price(a) < Price(b)

\* the position of resource offer ro in the list the pass loaded
LoadedAt(c, ro) == CHOOSE i \in 1..Len(pass[c].resourceOffers) : pass[c].resourceOffers[i] = ro

\* C5 (tie-break by store order): among the candidates of least price the
\* winner is the one the store returned first.
C5_EarliestWinsTie ==
    \A c \in Callers :
        pass[c].pc = "addPositive" =>
            \A ro \in Range(pass[c].matchingResourceOffers) :
                Price(ro) = Price(pass[c].deal.ResourceOffer)
                    => LoadedAt(c, pass[c].deal.ResourceOffer) <= LoadedAt(c, ro)

\* C6 (overlapping passes): with the store refusing a second decision for a
\* pair, at most one deal per pair is returned over all passes.
C6_OneDealPerPair == \A pr \in Pairs : returned[pr] <= 1

\* two passes both tried to write a pair, and the pair's deal was returned once
C6_Witness ==
    /\ overlap
    /\ \E pr \in Pairs : returned[pr] = 1 /\ addCalls[pr] = 2

\* C7 (idempotent resumption): after a pass was aborted by a store error
\* and a later pass has completed without error, every stored decision that
\* carries a deal ID belongs to a deal that was returned to a caller.
C7_ResumptionKeepsDeals ==
    (/\ errs >= 1
     /\ dealErrs = 0
     /\ \A c \in Callers : ~Active(c)
     /\ \E c \in Callers : pass[c].pc = "returned" /\ ~pass[c].err)
        => \A d \in matchDecisions :
              d.Deal # NoDealID => returned[<<d.ResourceOffer, d.JobOffer>>] >= 1

\* C8 (store error propagation): a pass one of whose store calls failed has
\* returned the error and no deals; the failing call leaves the decisions as
\* they were, and the pass makes no store call after it.
C8_ErrorPropagates ==
    /\ [](\A c \in Callers :
             pass[c].failed =>
                 pass[c].pc = "returned" /\ pass[c].err /\ pass[c].deals = <<>>)
    /\ [][\A c \in Callers :
             /\ (~pass[c].failed /\ pass'[c].failed) => matchDecisions' = matchDecisions
             /\ (pass[c].failed /\ pass'[c].failed) => pass'[c].calls = pass[c].calls]_vars

\* a pass failed after it had written decisions, which are still stored
C8_Witness ==
    \E c \in Callers :
        /\ pass[c].failed
        /\ pass[c].adds >= 2
        /\ \E d \in matchDecisions : d.Deal # NoDealID

\* C9 (one-to-one within a pass): no resource offer is in two deals of the
\* deal list of one pass.
C9_OneDealPerResourceOffer ==
    \A c \in Callers :
        \A i, j \in 1..Len(pass[c].deals) :
            pass[c].deals[i].ResourceOffer = pass[c].deals[j].ResourceOffer => i = j

\* the module identifier and the version of a job's module reference
ModuleIdentifier(jobOffer) == Head(Split(jobOffer.Module.Name, Code[":"]))

ModuleVersion(jobOffer) == extractVersion(jobOffer.Module)

\* the seven checks, each stated on its own
SpecCheck(ro, jo) ==
    ro.Spec.CPU >= jo.Spec.CPU /\ ro.Spec.GPU >= jo.Spec.GPU /\ ro.Spec.RAM >= jo.Spec.RAM

ModulesCheck(ro, jo) == ro.Modules = <<>> \/ ModuleIdentifier(jo) \in Range(ro.Modules)

AllowlistCheck(jo, al) ==
    /\ ModuleIdentifier(jo) \in DOMAIN al
    /\ ModuleVersion(jo) # <<>>
    /\ compareVersions(ModuleVersion(jo), al[ModuleIdentifier(jo)]) >= 0

MarketCheck(ro) == ro.Mode # MarketPrice

PriceCheck(ro, jo) ==
    ~(ro.Mode = FixedPrice /\ jo.Mode = FixedPrice)
        \/ ro.DefaultPricing.InstructionPrice <= jo.Pricing.InstructionPrice

MediatorCheck(ro, jo) == Range(ro.Services.Mediator) \cap Range(jo.Services.Mediator) # {}

SolverCheck(ro, jo) == ro.Services.Solver = jo.Services.Solver

\* C10 (the predicate is the conjunction of the seven checks): doOffersMatch
\* answers true exactly when all seven checks pass; disjoint mediator sets
\* and different solvers never match.
C10_SevenChecks ==
    mOut # "none" =>
        LET ro == mIn.resourceOffer
            jo == mIn.jobOffer
            al == mIn.allowlist
        IN  /\ (mOut = "match") <=>
                   (/\ SpecCheck(ro, jo)
                    /\ ModulesCheck(ro, jo)
                    /\ AllowlistCheck(jo, al)
                    /\ MarketCheck(ro)
                    /\ PriceCheck(ro, jo)
                    /\ MediatorCheck(ro, jo)
                    /\ SolverCheck(ro, jo))
            /\ ~MediatorCheck(ro, jo) => mOut = "no match"
            /\ ~SolverCheck(ro, jo) => mOut = "no match"

\* a match of a mixed-mode pair whose resource offer restricts its modules
C10_Witness ==
    /\ mOut = "match"
    /\ mIn.resourceOffer.Modules # <<>>
    /\ mIn.jobOffer.Mode = MarketPrice
    /\ mIn.resourceOffer.DefaultPricing.InstructionPrice > mIn.jobOffer.Pricing.InstructionPrice

\* the deals a pass holds: those it has formed and the one it is writing
DealsHeld(c) ==
    Range(pass[c].deals) \cup (IF pass[c].deal = NoDeal THEN {} ELSE {pass[c].deal})

MarketPriced(ro) == ResourceOfferOf[ro].Mode = MarketPrice

\* C11 (market price exclusion): doOffersMatch never judges a resource offer
\* in MarketPrice mode compatible, whatever the job offer's mode and the
\* allowlist; so over any sequence of passes every decision recorded for
\* such a resource offer has Result = false and no deal ID, no pass forms or
\* holds a deal with it, and no deal with it is returned.
C11_MarketPriceExcluded ==
    /\ (arriving = {} /\ mOut # "none")
          => (mIn.resourceOffer.Mode = MarketPrice => mOut = "no match")
    /\ \A d \in matchDecisions :
          MarketPriced(d.ResourceOffer) => ~d.Result /\ d.Deal = NoDealID
    /\ \A c \in Callers : \A d \in DealsHeld(c) : ~MarketPriced(d.ResourceOffer)
    /\ \A c \in Callers : \A i \in 1..Len(pass[c].matchingResourceOffers) :
          ~MarketPriced(pass[c].matchingResourceOffers[i])
    /\ \A pr \in Pairs : MarketPriced(pr[1]) => returned[pr] = 0

\* the market-priced r4 got its decision against j2, which it would match in
\* FixedPrice mode, and j2 went to the fixed-price r2 instead
C11_Witness ==
    /\ doOffersMatch([ResourceOfferOf["r4"] EXCEPT !.Mode = FixedPrice],
                     JobOfferOf["j2"], PassAllowlist)
    /\ MatchDecision("r4", "j2", NoDealID, FALSE) \in matchDecisions
    /\ returned[<<"r2", "j2">>] = 1

\* C12 (fail-closed allowlist): a job offer whose module reference has no
\* version segment is never judged compatible with any resource offer,
\* whatever the allowlist holds (an entry for its module identifier
\* included); so every decision recorded for it has Result = false and no
\* deal ID, and no pass forms, holds or returns a deal for it.
C12_VersionlessExcluded ==
    /\ (arriving = {} /\ mOut # "none")
          => (Versionless(mIn.jobOffer) => mOut = "no match")
    /\ \A d \in matchDecisions :
          Versionless(JobOfferOf[d.JobOffer]) => ~d.Result /\ d.Deal = NoDealID
    /\ \A c \in Callers : \A d \in DealsHeld(c) : ~Versionless(JobOfferOf[d.JobOffer])
    /\ \A pr \in Pairs : Versionless(JobOfferOf[pr[2]]) => returned[pr] = 0

\* the allowlist lists the module of the versionless j3, r2 would match j3
\* if the reference carried the version j2 names, and r2 got its decision
\* against j3
C12_Witness ==
    /\ GetModuleID(JobOfferOf["j3"].Module).id \in DOMAIN PassAllowlist
    /\ doOffersMatch(ResourceOfferOf["r2"],
                     [JobOfferOf["j3"] EXCEPT !.Module = JobOfferOf["j2"].Module],
                     PassAllowlist)
    /\ MatchDecision("r2", "j3", NoDealID, FALSE) \in matchDecisions

\* the segments the two tuples share
Shared(t1, t2) == 1..Min2(Len(t1), Len(t2))

\* the first shared segment at which the tuples differ, if any
FirstDifference(t1, t2) ==
    {i \in Shared(t1, t2) : t1[i] # t2[i] /\ \A k \in 1..(i - 1) : t1[k] = t2[k]}

\* C13 (numeric segment comparison): for dotted versions whose segments all
\* parse as integers, with or without a leading v, compareVersions decides
\* by the first shared segment that differs, compared as numbers (1.2 is
\* less than 1.10); it returns 0 for identical versions; and when all shared
\* segments are equal the version with fewer segments is less.
C13_NumericSegments ==
    mOut = "compared" =>
        /\ \A i \in FirstDifference(mIn.t1, mIn.t2) :
              mIn.result = IF mIn.t1[i] < mIn.t2[i] THEN 0 - 1 ELSE 1
        /\ mIn.v1 = mIn.v2 => mIn.result = 0
        /\ (FirstDifference(mIn.t1, mIn.t2) = {} /\ Len(mIn.t1) < Len(mIn.t2))
              => mIn.result = 0 - 1
        /\ (FirstDifference(mIn.t1, mIn.t2) = {} /\ Len(mIn.t1) > Len(mIn.t2))
              => mIn.result = 1

\* v1.2 was compared with v1.10 and found less
C13_Witness ==
    /\ mOut = "compared"
    /\ mIn.v1 = S(<<"v", "1", ".", "2">>)
    /\ mIn.v2 = S(<<"v", "1", ".", "1", "0">>)
    /\ mIn.result = 0 - 1

\* C14 (total order): over dotted versions, segments that are not numbers
\* included, compareVersions is transitive (a <= b and b <= c imply a <= c)
\* and antisymmetric (comparing b with a gives the negation of comparing a
\* with b).
C14_TotalOrder ==
    mOut = "ordered" =>
        /\ (mIn.result.ab <= 0 /\ mIn.result.bc <= 0) => mIn.result.ac <= 0
        /\ mIn.result.ab = 0 - mIn.result.ba

\* the decisions the store will hold for a pair after the step
DecisionsAfter(ro, jo) ==
    {d \in matchDecisions' : d.ResourceOffer = ro /\ d.JobOffer = jo}

\* caller c's pass writes the last positive decision of a job offer and
\* appends the deal: all the writes for the job offer have succeeded
CompletesJob(c) ==
    /\ pass[c].pc = "addPositive"
    /\ Len(pass'[c].deals) = Len(pass[c].deals) + 1

\* C15 (positive decisions and the deal): when a job offer has candidates in
\* a pass and every write for it succeeds, the pass forms exactly one deal
\* for it, the store holds exactly one decision for each candidate, written
\* once and with Result = true, and exactly one of them, the winner's,
\* carries the deal's ID while the others carry no deal ID.
C15_OneDealManyPositives ==
    [][\A c \in Callers : CompletesJob(c) =>
          LET r == pass[c]
              jo == r.jobOffers[r.ji]
              candidates == Range(r.matchingResourceOffers)
          IN  /\ candidates # {}
              /\ pass'[c].deals = Append(r.deals, r.deal)
              /\ Cardinality({k \in 1..Len(pass'[c].deals) :
                                 pass'[c].deals[k].JobOffer = jo}) = 1
              /\ r.deal.JobOffer = jo
              /\ r.deal.ResourceOffer \in candidates
              /\ r.deal.ID # NoDealID
              /\ \A ro \in candidates :
                    /\ DecisionsAfter(ro, jo) =
                          {MatchDecision(ro, jo,
                                         IF ro = r.deal.ResourceOffer THEN r.deal.ID
                                         ELSE NoDealID,
                                         TRUE)}
                    /\ addCalls'[<<ro, jo>>] = 1
              /\ Cardinality({d \in matchDecisions' :
                                 d.JobOffer = jo /\ d.Deal # NoDealID}) = 1
    ]_vars

\* j2 had three candidates: the winner r2 carries the deal of the pair, r1
\* and r3 have positive decisions without a deal ID, and the deal was returned
C15_Witness ==
    /\ MatchDecision("r2", "j2", GetDeal("j2", "r2").ID, TRUE) \in matchDecisions
    /\ MatchDecision("r1", "j2", NoDealID, TRUE) \in matchDecisions
    /\ MatchDecision("r3", "j2", NoDealID, TRUE) \in matchDecisions
    /\ returned[<<"r2", "j2">>] = 1

\* caller c's pass is inside its loops
InLoops(c) == pass[c].pc \in {"getMatchDecision", "addNegative", "sort", "addPositive"}

\* the resource offer at index k has been through the inner loop body for
\* the current job offer, its negative write excepted
Visited(c, k) ==
    \/ k < pass[c].ri
    \/ k = pass[c].ri /\ pass[c].pc \in {"sort", "addPositive"}

\* where the writes of caller c's pass stand
WritesInOrder(c) ==
    LET r == pass[c]
        jo == r.jobOffers[r.ji]
        candidates == Range(r.matchingResourceOffers)
    IN  /\ \A k \in 1..Len(r.resourceOffers) :
              Visited(c, k) =>
                  (r.resourceOffers[k] \in candidates \/ HasDecision(r.resourceOffers[k], jo))
        /\ r.pc \in {"getMatchDecision", "addNegative", "sort"} =>
              \A ro \in candidates : ~HasDecision(ro, jo)
        /\ r.pc = "addPositive" =>
              /\ r.ri = Len(r.resourceOffers)
              /\ \A w \in 1..Len(r.matchingResourceOffers) :
                    HasDecision(r.matchingResourceOffers[w], jo) <=> w < r.wi
        /\ \A j \in 1..(r.ji - 1) : \A k \in 1..Len(r.resourceOffers) :
              HasDecision(r.resourceOffers[k], r.jobOffers[j])

\* a decision is added only by a pass at one of its two writes, for the pair
\* that write is about
WriteIsDue(c) ==
    LET r == pass[c]
        jo == r.jobOffers[r.ji]
    IN  \/ /\ r.pc = "addNegative"
           /\ matchDecisions' =
                  matchDecisions \cup {MatchDecision(r.resourceOffers[r.ri], jo, NoDealID, FALSE)}
        \/ /\ r.pc = "addPositive"
           /\ \E d \in matchDecisions' :
                 /\ matchDecisions' = matchDecisions \cup {d}
                 /\ d.ResourceOffer = r.matchingResourceOffers[r.wi]
                 /\ d.JobOffer = jo
                 /\ d.Result

\* caller c's pass returns without error in this step
ReturnsClean(c) ==
    /\ pass[c].pc # "returned"
    /\ pass'[c].pc = "returned"
    /\ ~pass'[c].err

\* C16 (ordering of decision writes): within a pass the negative decision of
\* an incompatible pair is in the store before the next resource offer is
\* evaluated; the positive decisions of a job offer are written only after
\* every resource offer has been visited for it, in candidate order, and
\* all of them before the next job offer is started; so when a pass returns
\* without error every pair of a loaded resource offer and a loaded job
\* offer has exactly one stored decision.
C16_WriteOrder ==
    /\ [](\A c \in Callers : InLoops(c) => WritesInOrder(c))
    /\ [][/\ matchDecisions' # matchDecisions => \E c \in Callers : WriteIsDue(c)
          /\ \A c \in Callers : ReturnsClean(c) =>
                \A ro \in Range(pass[c].resourceOffers) :
                    \A jo \in Range(pass[c].jobOffers) :
                        Cardinality(DecisionsAfter(ro, jo)) = 1
       ]_vars

\* the first pass has returned without error: j1 was refused by r1 and won
\* r2, and j2 has positive decisions with r1 and r2
C16_Witness ==
    /\ passes = 1
    /\ pass["c1"].pc = "returned"
    /\ ~pass["c1"].err
    /\ MatchDecision("r1", "j1", NoDealID, FALSE) \in matchDecisions
    /\ MatchDecision("r2", "j1", GetDeal("j1", "r2").ID, TRUE) \in matchDecisions
    /\ HasDecision("r1", "j2")
    /\ HasDecision("r2", "j2")

\* C17 (price ceiling only between fixed prices): a FixedPrice resource offer
\* whose instruction price exceeds the price of a FixedPrice job offer never
\* matches it; a FixedPrice resource offer and a MarketPrice job offer match
\* exactly when the checks other than the price check pass, whatever the two
\* prices are.
C17_PriceCeilingFixedOnly ==
    mOut # "none" =>
        LET ro == mIn.resourceOffer
            jo == mIn.jobOffer
            al == mIn.allowlist
        IN  /\ (/\ ro.Mode = FixedPrice
                /\ jo.Mode = FixedPrice
                /\ ro.DefaultPricing.InstructionPrice > jo.Pricing.InstructionPrice)
                  => mOut = "no match"
            /\ (ro.Mode = FixedPrice /\ jo.Mode = MarketPrice) =>
                  ((mOut = "match") <=>
                       (/\ SpecCheck(ro, jo)
                        /\ ModulesCheck(ro, jo)
                        /\ AllowlistCheck(jo, al)
                        /\ MediatorCheck(ro, jo)
                        /\ SolverCheck(ro, jo)))

\* a fixed-price resource offer matched a market-price job offer that names a
\* lower price, and the same offers with the job at a fixed price would not
\* have matched
C17_Witness ==
    /\ mOut = "match"
    /\ mIn.resourceOffer.Mode = FixedPrice
    /\ mIn.jobOffer.Mode = MarketPrice
    /\ mIn.resourceOffer.DefaultPricing.InstructionPrice > mIn.jobOffer.Pricing.InstructionPrice
    /\ ~doOffersMatch(mIn.resourceOffer, [mIn.jobOffer EXCEPT !.Mode = FixedPrice],
                      mIn.allowlist)

Compatible(ro, jo) == doOffersMatch(ResourceOfferOf[ro], JobOfferOf[jo], PassAllowlist)

Failures == errs + dealErrs

\* caller c's pass has just loaded its lists
AtStart(c) ==
    pass[c].pc = "getMatchDecision" /\ pass[c].ji = 1 /\ pass[c].ri = 1 /\ pass[c].calls = 2

\* the pass has loaded jo together with a compatible resource offer with
\* which jo has no decision
LoadedWithPartner(c, jo) ==
    /\ AtStart(c)
    /\ jo \in Range(pass[c].jobOffers)
    /\ \E ro \in Range(pass[c].resourceOffers) : Compatible(ro, jo) /\ ~HasDecision(ro, jo)

\* between passes: jo is unmatched and the store offers a compatible
\* resource offer with which jo has no decision
AwaitsPartner(jo) ==
    /\ \A c \in Callers : ~Active(c)
    /\ jo \in Range(NotMatchedJobOffers)
    /\ \E ro \in Range(NotMatchedResourceOffers) : Compatible(ro, jo) /\ ~HasDecision(ro, jo)

DealReturnedFor(jo) == \E ro \in ResIds : returned[<<ro, jo>>] > 0

\* C18 (eventual matching): a job offer whose pairs so far were all recorded
\* negative stays among the job offers a pass loads; a pass that has loaded
\* it together with a compatible resource offer with which it has no
\* decision returns a deal for it unless a call of the pass fails; and with
\* passes invoked again and again, a job offer that the store holds
\* unmatched next to such a resource offer is eventually matched unless a
\* call fails first.
C18_EventuallyMatched ==
    /\ [](\A c \in Callers : \A jo \in Range(storeJobOffers) :
             (InLoops(c) /\ ~JobOfferMatched(jo) /\ \E ro \in ResIds : HasDecision(ro, jo))
                 => jo \in Range(pass[c].jobOffers))
    /\ [][\A c \in Callers : ReturnsClean(c) =>
              \A jo \in Range(pass[c].jobOffers) :
                  (\E ro \in Range(pass[c].resourceOffers) : Compatible(ro, jo))
                      => \E k \in 1..Len(pass'[c].deals) : pass'[c].deals[k].JobOffer = jo
       ]_vars
    /\ \A jo \in JobIds : \A n \in 0..MaxErrors :
          (LoadedWithPartner("c1", jo) /\ Failures = n)
              ~> (DealReturnedFor(jo) \/ Failures > n)
    /\ \A jo \in JobIds : \A n \in 0..MaxErrors :
          (AwaitsPartner(jo) /\ passes < MaxPasses /\ Failures = n)
              ~> (JobOfferMatched(jo) \/ Failures > n)

\* j1 was refused by r1 in the first pass; the second pass wrote one
\* decision, the positive one for r2 and j1, and returned their deal
C18_Witness ==
    /\ passes = 2
    /\ pass["c1"].pc = "returned"
    /\ pass["c1"].adds = 1
    /\ MatchDecision("r1", "j1", NoDealID, FALSE) \in matchDecisions
    /\ pass["c1"].deals = <<GetDeal("j1", "r2")>>
    /\ returned[<<"r2", "j1">>] = 1

\* the unmatched offers of the store that caller c's pass did not load: they
\* were ingested after the pass loaded its list
LateResourceOffers(c) ==
    {ro \in Range(NotMatchedResourceOffers) : ro \notin Range(pass[c].resourceOffers)}

LateJobOffers(c) ==
    {jo \in Range(NotMatchedJobOffers) : jo \notin Range(pass[c].jobOffers)}

\* nothing of caller c's pass concerns offer id
Untouched(c, id) ==
    /\ \A d \in matchDecisions : d.ResourceOffer # id /\ d.JobOffer # id
    /\ id \notin Range(pass[c].matchingResourceOffers)
    /\ \A d \in DealsHeld(c) : d.ResourceOffer # id /\ d.JobOffer # id

\* C19 (offers arriving mid-pass): a pass loads its two lists once and keeps
\* them to its return; an offer ingested after the load is left without a
\* decision, is no candidate and is in no deal of that pass, and every
\* decision a pass writes is for a pair of offers it loaded; the next pass
\* loads every unmatched offer of the store, the late one included, and when
\* it returns without error every pair of its loaded offers has a decision.
C19_LateOffersWait ==
    /\ [](\A c \in Callers : InLoops(c) =>
             \A id \in LateResourceOffers(c) \cup LateJobOffers(c) : Untouched(c, id))
    /\ [][\A c \in Callers :
             /\ (InLoops(c) /\ Active(c)')
                   => /\ pass'[c].resourceOffers = pass[c].resourceOffers
                      /\ pass'[c].jobOffers = pass[c].jobOffers
             /\ (pass[c].pc = "getJobOffers" /\ Active(c)')
                   => pass'[c].resourceOffers = pass[c].resourceOffers
             /\ (pass[c].calls' > pass[c].calls) =>
                   \A d \in matchDecisions' \ matchDecisions :
                       /\ d.ResourceOffer \in Range(pass[c].resourceOffers)
                       /\ d.JobOffer \in Range(pass[c].jobOffers)
             /\ (pass[c].pc = "getResourceOffers" /\ pass'[c].pc = "getJobOffers")
                   => pass'[c].resourceOffers = NotMatchedResourceOffers
             /\ (pass[c].pc = "getJobOffers" /\ InLoops(c)')
                   => pass'[c].jobOffers = NotMatchedJobOffers
             /\ ReturnsClean(c) =>
                   \A ro \in Range(pass[c].resourceOffers) :
                       \A jo \in Range(pass[c].jobOffers) : DecisionsAfter(ro, jo) # {}
       ]_vars

\* a pass that has written decisions runs on while the store holds a
\* resource offer and a job offer that arrived after its loads
C19_Witness ==
    /\ InLoops("c1")
    /\ pass["c1"].adds >= 1
    /\ LateResourceOffers("c1") # {}
    /\ LateJobOffers("c1") # {}

\* C20 (at most one deal per job offer): in every reachable state, two
\* overlapping passes that loaded their own lists and a store that refuses
\* a second decision for a pair included, no job offer has decisions that
\* carry a deal ID against two different resource offers.
C20_OneDealPerJobOffer ==
    \A d1, d2 \in matchDecisions :
        (d1.JobOffer = d2.JobOffer /\ d1.Deal # NoDealID /\ d2.Deal # NoDealID)
            => d1.ResourceOffer = d2.ResourceOffer

====
